---------------------------- MODULE Spec2Model ----------------------------
(***************************************************************************)
(* A model of the bank-account exercise: main.py (TimeZone, Account and    *)
(* its confirmation codes) and transactionNumbers.py (TransactionID).      *)
(*                                                                         *)
(* Python strings are sequences of one-character strings.  Real numbers    *)
(* (balances, amounts, the interest rate) are exact rationals [n, d] in    *)
(* lowest terms; non-finite floats and float rounding are not modelled.    *)
(* A raised exception is a record [ok |-> FALSE, err |-> message].         *)
(***************************************************************************)
EXTENDS Integers, Sequences, FiniteSets, TLC

VARIABLES
    accounts,             \* main.py: slot -> Account object, or NoAccount
    transaction_counter,  \* main.py: next value of Account.transaction_counter
    interest_rate,        \* main.py: Account._interest_rate
    issued,               \* main.py: the ids handed out so far and to whom, in order
    last,                 \* main.py: the last call on Account and its outcome
    conf,                 \* main.py: the last generate_confirmation_code call
    parsed,               \* main.py: the last parse_confirmation_code call
    tz,                   \* main.py: the last TimeZone(...) call
    start_id,             \* transactionNumbers.py: TransactionID._start_id
    pc,                   \* transactionNumbers.py: each caller's place in next()
    reg,                  \* transactionNumbers.py: each caller's loaded value
    returned              \* transactionNumbers.py: what each caller's calls returned

vars == <<accounts, transaction_counter, interest_rate, issued, last,
          conf, parsed, tz, start_id, pc, reg, returned>>

accountVars == <<accounts, interest_rate, issued, last>>

codecVars == <<conf, parsed>>

callerVars == <<start_id, pc, reg, returned>>

-----------------------------------------------------------------------------
(* Bounds of the model *)

\* TimeZone is tried with hours in -MaxHours..MaxHours
MaxHours == 15
\* ... and minutes in -MaxMinutes..MaxMinutes
MaxMinutes == 61
\* ids handed out by the shared counter in one run of the account model
MaxIds == 3
\* calls of next() each concurrent caller makes
MaxCalls == 2
\* confirmation codes generated in one run of the codec model
MaxCodes == 2
\* interest is paid on balances whose denominator in lowest terms is at most
\* this, which keeps the exact arithmetic within TLC's integers
MaxDenominator == 200

-----------------------------------------------------------------------------
(* Python values *)

\* Arguments whose type the code inspects are tagged with their Python type:
\* None, a str (s: its characters), an int (v) or a float that is no whole
\* number (twice: twice its value); a real amount is a Rat (below).
None == [type |-> "NoneType"]

PyStr(s) == [type |-> "str", s |-> s]

PyInt(v) == [type |-> "int", v |-> v]

PyHalf(twice) == [type |-> "float", twice |-> twice]

Raise(msg) == [ok |-> FALSE, err |-> msg]

Return(v) == [ok |-> TRUE, value |-> v]

DIGITS == <<"0", "1", "2", "3", "4", "5", "6", "7", "8", "9">>

IsDigit(c) == \E i \in 1..10 : DIGITS[i] = c

DigitVal(c) == (CHOOSE i \in 1..10 : DIGITS[i] = c) - 1

\* str(n) for an int
RECURSIVE IntToStr(_)
IntToStr(n) ==
    IF n < 0 THEN <<"-">> \o IntToStr(-n)
    ELSE IF n < 10 THEN <<DIGITS[n + 1]>>
    ELSE IntToStr(n \div 10) \o <<DIGITS[(n % 10) + 1]>>

\* the digits of n, zero-padded on the left to width w (%m, %d, ... of strftime)
RECURSIVE ZeroPad(_, _)
ZeroPad(n, w) ==
    IF w = 0 THEN <<>>
    ELSE ZeroPad(n \div 10, w - 1) \o <<DIGITS[(n % 10) + 1]>>

\* the number a string of digits denotes
RECURSIVE DigitsVal(_)
DigitsVal(s) ==
    IF s = <<>> THEN 0
    ELSE 10 * DigitsVal(SubSeq(s, 1, Len(s) - 1)) + DigitVal(s[Len(s)])

\* str(x), as an f-string or str() renders x
ToStr(x) ==
    CASE x.type = "str" -> x.s
      [] x.type = "int" -> IntToStr(x.v)
      [] x.type = "NoneType" -> <<"N", "o", "n", "e">>

IsSpace(c) == c = " "

\* str.strip()
RECURSIVE Strip(_)
Strip(s) ==
    IF s = <<>> THEN s
    ELSE IF IsSpace(s[1]) THEN Strip(Tail(s))
    ELSE IF IsSpace(s[Len(s)]) THEN Strip(SubSeq(s, 1, Len(s) - 1))
    ELSE s

\* str.split(sep) for a one-character sep: always at least one part
RECURSIVE Split(_, _)
Split(s, sep) ==
    IF \A i \in 1..Len(s) : s[i] # sep THEN <<s>>
    ELSE LET k == CHOOSE i \in 1..Len(s) :
                      s[i] = sep /\ \A j \in 1..(i - 1) : s[j] # sep
         IN  <<SubSeq(s, 1, k - 1)>> \o Split(SubSeq(s, k + 1, Len(s)), sep)

-----------------------------------------------------------------------------
(* Real numbers: exact rationals in lowest terms *)

Abs(x) == IF x < 0 THEN -x ELSE x

RECURSIVE Gcd(_, _)
Gcd(a, b) == IF b = 0 THEN a ELSE Gcd(b, a % b)

Rat(n, d) ==
    LET g == Gcd(Abs(n), d)
    IN  [type |-> "Real", n |-> n \div g, d |-> d \div g]

IsReal(v) == v.type = "Real"

\* x + y over the least common denominator, which keeps the products small
RAdd(x, y) ==
    LET g == Gcd(x.d, y.d)
    IN  Rat(x.n * (y.d \div g) + y.n * (x.d \div g), (x.d \div g) * y.d)

RNeg(x) == [type |-> "Real", n |-> -x.n, d |-> x.d]

RSub(x, y) == RAdd(x, RNeg(y))

\* x * y, cancelling across before multiplying
RMul(x, y) ==
    LET g1 == Gcd(Abs(x.n), y.d)
        g2 == Gcd(Abs(y.n), x.d)
    IN  Rat((x.n \div g1) * (y.n \div g2), (x.d \div g2) * (y.d \div g1))

\* x / k for a positive int k
RDivInt(x, k) == RMul(x, Rat(1, k))

RLt(x, y) == RSub(x, y).n < 0

RLe(x, y) == RSub(x, y).n <= 0

-----------------------------------------------------------------------------
(* datetime.timedelta: normalised to days and 0 <= seconds < 86400 *)

timedelta(hours, minutes) ==
    LET total == hours * 3600 + minutes * 60
    IN  [days |-> IF total >= 0 THEN total \div 86400
                  ELSE -((-total + 86399) \div 86400),
         seconds |-> total % 86400]

\* TdLt with the boundary taken in: <= where the code has <
TdLe(a, b) == a.days < b.days \/ (a.days = b.days /\ a.seconds <= b.seconds)

\* timedelta.__lt__: compares (days, seconds)
TdLt(a, b) == a.days < b.days \/ (a.days = b.days /\ a.seconds < b.seconds)

\* the timedelta in minutes (it holds whole minutes here)
TdMinutes(a) == a.days * 1440 + (a.seconds \div 60)

-----------------------------------------------------------------------------
(* class TimeZone *)

\* isinstance(x, numbers.Integral)
IsIntegral(x) == x.type = "int"

TimeZone(name, offset_hours, offset_minutes) ==
    IF name.type = "NoneType" \/ Len(Strip(ToStr(name))) = 0
    THEN Raise("Timezone name cannot be empty.")
    ELSE IF ~IsIntegral(offset_hours)
    THEN Raise("Hour offset must be an integer.")
    ELSE IF ~IsIntegral(offset_minutes)
    THEN Raise("Minute offset must be an integer.")
    ELSE IF offset_minutes.v > 59 \/ offset_minutes.v < -59
    THEN Raise("Minute offset must be between -59 and 59 (inclusive).")
    ELSE LET offset == timedelta(offset_hours.v, offset_minutes.v)
         IN  IF TdLt(offset, timedelta(-12, 0)) \/ TdLt(timedelta(14, 0), offset)
             THEN Raise("Offset must be between -12:00 and +14:00.")
             ELSE Return([type |-> "TimeZone",
                          name |-> Strip(ToStr(name)),
                          offset_hours |-> offset_hours.v,
                          offset_minutes |-> offset_minutes.v,
                          offset |-> offset])

IsTimeZone(x) == x.type = "TimeZone"

\* TimeZone.__eq__
TimeZoneEq(a, b) ==
    /\ IsTimeZone(b)
    /\ a.name = b.name
    /\ a.offset_hours = b.offset_hours
    /\ a.offset_minutes = b.offset_minutes

-----------------------------------------------------------------------------
(* datetime.datetime: [year, month, day, hour, minute, second, microsecond] *)

IsLeap(y) == y % 4 = 0 /\ (y % 100 # 0 \/ y % 400 = 0)

DaysInMonth(y, m) ==
    IF m = 2 THEN (IF IsLeap(y) THEN 29 ELSE 28)
    ELSE IF m \in {4, 6, 9, 11} THEN 30 ELSE 31

\* days before 1 January of year y, counting from 1 January of year 1
DaysBeforeYear(y) ==
    365 * (y - 1) + ((y - 1) \div 4) - ((y - 1) \div 100) + ((y - 1) \div 400)

RECURSIVE DaysBeforeMonth(_, _)
DaysBeforeMonth(y, m) ==
    IF m = 1 THEN 0 ELSE DaysBeforeMonth(y, m - 1) + DaysInMonth(y, m - 1)

\* days from 0001-01-01 to dt's date
ToDays(dt) == DaysBeforeYear(dt.year) + DaysBeforeMonth(dt.year, dt.month) + dt.day - 1

\* seconds from midnight to dt's time of day
SecondOfDay(dt) == dt.hour * 3600 + dt.minute * 60 + dt.second

\* the date n days after 0001-01-01, when its year is in 1..9999
DateOfDays(n) ==
    LET guess == (n \div 366) + 1
        y == CHOOSE yy \in guess..(guess + 30) :
                 DaysBeforeYear(yy) <= n /\ n < DaysBeforeYear(yy + 1)
        m == CHOOSE mm \in 1..12 :
                 /\ DaysBeforeYear(y) + DaysBeforeMonth(y, mm) <= n
                 /\ n < DaysBeforeYear(y) + DaysBeforeMonth(y, mm) + DaysInMonth(y, mm)
    IN  [year |-> y, month |-> m,
         day |-> n - DaysBeforeYear(y) - DaysBeforeMonth(y, m) + 1]

\* datetime + timedelta: OverflowError outside years 1..9999
DatetimeAdd(dt, td) ==
    LET secs == SecondOfDay(dt) + td.seconds
        days == ToDays(dt) + td.days + (secs \div 86400)
        r == secs % 86400
    IN  IF days < 0 \/ days >= DaysBeforeYear(10000)
        THEN Raise("date value out of range")
        ELSE LET date == DateOfDays(days)
             IN  Return([year |-> date.year, month |-> date.month, day |-> date.day,
                         hour |-> r \div 3600, minute |-> (r % 3600) \div 60,
                         second |-> r % 60, microsecond |-> dt.microsecond])

\* dt.strftime('%Y%m%d%H%M%S'): the microseconds are dropped
strftime(dt) ==
    ZeroPad(dt.year, 4) \o ZeroPad(dt.month, 2) \o ZeroPad(dt.day, 2)
    \o ZeroPad(dt.hour, 2) \o ZeroPad(dt.minute, 2) \o ZeroPad(dt.second, 2)

\* dt.isoformat() of a datetime with microsecond = 0
isoformat(dt) ==
    ZeroPad(dt.year, 4) \o <<"-">> \o ZeroPad(dt.month, 2) \o <<"-">>
    \o ZeroPad(dt.day, 2) \o <<"T">> \o ZeroPad(dt.hour, 2) \o <<":">>
    \o ZeroPad(dt.minute, 2) \o <<":">> \o ZeroPad(dt.second, 2)

\* The directives of '%Y%m%d%H%M%S' as strptime's regular expression has them:
\* per field, the alternatives in the order they are tried, each a width and
\* the range of the number its digits denote.
StrptimeFields ==
    << << [w |-> 4, lo |-> 0, hi |-> 9999] >>,                          \* %Y \d\d\d\d
       << [w |-> 2, lo |-> 10, hi |-> 12], [w |-> 2, lo |-> 1, hi |-> 9],
          [w |-> 1, lo |-> 1, hi |-> 9] >>,                              \* %m
       << [w |-> 2, lo |-> 30, hi |-> 31], [w |-> 2, lo |-> 10, hi |-> 29],
          [w |-> 2, lo |-> 1, hi |-> 9], [w |-> 1, lo |-> 1, hi |-> 9] >>, \* %d
       << [w |-> 2, lo |-> 20, hi |-> 23], [w |-> 2, lo |-> 0, hi |-> 19],
          [w |-> 1, lo |-> 0, hi |-> 9] >>,                              \* %H
       << [w |-> 2, lo |-> 0, hi |-> 59], [w |-> 1, lo |-> 0, hi |-> 9] >>, \* %M
       << [w |-> 2, lo |-> 60, hi |-> 61], [w |-> 2, lo |-> 0, hi |-> 59],
          [w |-> 1, lo |-> 0, hi |-> 9] >> >>                            \* %S

AltMatches(s, i, alt) ==
    /\ i + alt.w - 1 <= Len(s)
    /\ \A j \in i..(i + alt.w - 1) : IsDigit(s[j])
    /\ LET v == DigitsVal(SubSeq(s, i, i + alt.w - 1)) IN alt.lo <= v /\ v <= alt.hi

\* The first match of fields f.. at position i of s, trying field f's
\* alternatives from the a-th on and backtracking: the field values followed by
\* the end position, or <<>> when nothing matches.
RECURSIVE ReMatch(_, _, _, _)
ReMatch(s, i, f, a) ==
    IF f > Len(StrptimeFields) THEN <<i>>
    ELSE IF a > Len(StrptimeFields[f]) THEN <<>>
    ELSE LET alt == StrptimeFields[f][a]
             rest == IF AltMatches(s, i, alt) THEN ReMatch(s, i + alt.w, f + 1, 1)
                     ELSE <<>>
         IN  IF rest # <<>>
             THEN <<DigitsVal(SubSeq(s, i, i + alt.w - 1))>> \o rest
             ELSE ReMatch(s, i, f, a + 1)

\* datetime.strptime(s, '%Y%m%d%H%M%S'): the regular expression must match at the
\* start and leave nothing over, and the fields must make a datetime
strptime(s) ==
    LET found == ReMatch(s, 1, 1, 1)
    IN  IF found = <<>>
        THEN Raise("time data does not match format")
        ELSE IF found[7] # Len(s) + 1
        THEN Raise("unconverted data remains")
        ELSE IF found[1] < 1
        THEN Raise("year is out of range")
        ELSE IF found[3] > DaysInMonth(found[1], found[2])
        THEN Raise("day is out of range for month")
        ELSE IF found[6] > 59
        THEN Raise("second must be in 0..59")
        ELSE Return([year |-> found[1], month |-> found[2], day |-> found[3],
                     hour |-> found[4], minute |-> found[5], second |-> found[6],
                     microsecond |-> 0])

-----------------------------------------------------------------------------
(* class Account of main.py *)

\* Account._transaction_codes
transaction_codes ==
    [deposit |-> <<"D">>, withdraw |-> <<"W">>, interest |-> <<"I">>, rejected |-> <<"X">>]

\* count_next that hands out the value and leaves the counter where it is
count_next_stuck(counter) == [value |-> counter, counter |-> counter]

\* next(Account.transaction_counter) on itertools.count: one indivisible call
\* that returns the current value and moves the counter on by one
count_next(counter) == [value |-> counter, counter |-> counter + 1]

\* Account.validate_real_number; min_value is None or a real
validate_real_number(value, min_value) ==
    IF ~IsReal(value)
    THEN Raise("Value must be a real number.")
    ELSE IF min_value.type # "NoneType" /\ RLt(value, min_value)
    THEN Raise("Value must be at least min_value.")
    ELSE Return(value)

\* Account.validate_and_set_name, as the first_name and last_name setters use it
validate_and_set_name(value, field_title) ==
    IF value.type = "NoneType" \/ Len(Strip(ToStr(value))) = 0
    THEN Raise(field_title \o " cannot be empty.")
    ELSE Return(value)

\* the timezone setter
set_timezone(value) ==
    IF ~IsTimeZone(value)
    THEN Raise("Time Zone must be a valid TimeZone object.")
    ELSE Return(value)

\* Account.__init__: the new object, or the first exception raised
NewAccount(account_number, first_name, last_name, timezone, initial_balance) ==
    LET first == validate_and_set_name(first_name, "First Name")
        lastn == validate_and_set_name(last_name, "Last Name")
        zone == set_timezone(IF timezone.type = "NoneType"
                             THEN TimeZone(PyStr(<<"U", "T", "C">>), PyInt(0), PyInt(0)).value
                             ELSE timezone)
        bal == validate_real_number(initial_balance, Rat(0, 1))
    IN  IF ~first.ok THEN first
        ELSE IF ~lastn.ok THEN lastn
        ELSE IF ~zone.ok THEN zone
        ELSE IF ~bal.ok THEN bal
        ELSE Return([type |-> "Account",
                     account_number |-> account_number,
                     first_name |-> first.value,
                     last_name |-> lastn.value,
                     timezone |-> zone.value,
                     balance |-> bal.value])

\* Account.set_interest_rate: the new class-level rate, or the exception
set_interest_rate(value) ==
    IF ~IsReal(value)
    THEN Raise("Interest rate must be a real number.")
    ELSE IF RLt(value, Rat(0, 1))
    THEN Raise("Interest rate cannot be negative.")
    ELSE Return(value)

\* generate_confirmation_code with the seconds left out of the timestamp
generate_confirmation_code_minutes(self, transaction_code, now, counter) ==
    LET dt_str == SubSeq(strftime(now), 1, 12)
        nxt == count_next(counter)
    IN  [code |-> transaction_code \o <<"-">> \o ToStr(self.account_number) \o <<"-">>
                  \o dt_str \o <<"-">> \o IntToStr(nxt.value),
         counter |-> nxt.counter]

\* Account.generate_confirmation_code, with utcnow() = now: the code and the
\* counter after the call
generate_confirmation_code(self, transaction_code, now, counter) ==
    LET dt_str == strftime(now)
        nxt == count_next(counter)
    IN  [code |-> transaction_code \o <<"-">> \o ToStr(self.account_number) \o <<"-">>
                  \o dt_str \o <<"-">> \o IntToStr(nxt.value),
         counter |-> nxt.counter]

\* Account.parse_confirmation_code
parse_confirmation_code(confirmation_code, preferred_time_zone) ==
    LET parts == Split(confirmation_code, "-")
    IN  IF Len(parts) # 4
        THEN Raise("Invalid confirmation code")
        ELSE LET transaction_code == parts[1]
                 account_number == parts[2]
                 raw_dt_utc == parts[3]
                 transaction_id == parts[4]
                 dt_utc == strptime(raw_dt_utc)
                 zone == IF preferred_time_zone.type = "NoneType"
                         THEN TimeZone(PyStr(<<"U", "T", "C">>), PyInt(0), PyInt(0)).value
                         ELSE preferred_time_zone
             IN  IF ~dt_utc.ok
                 THEN Raise("Invalid transaction datetime.")
                 ELSE IF ~IsTimeZone(zone)
                 THEN Raise("Invalid TimeZone specified.")
                 ELSE LET dt_preferred == DatetimeAdd(dt_utc.value, zone.offset)
                      IN  IF ~dt_preferred.ok
                          THEN dt_preferred
                          ELSE Return([account_number |-> account_number,
                                       transaction_code |-> transaction_code,
                                       transaction_id |-> transaction_id,
                                       time_utc |-> isoformat(dt_utc.value),
                                       time |-> dt_preferred.value])

\* The outcome of a call on an account: what it raised or returned, the account
\* object and the shared counter after it.
Outcome(result, self, counter) == [result |-> result, self |-> self, counter |-> counter]

\* deposit that asks for the confirmation code before it validates the amount
deposit_code_first(self, value, now, counter) ==
    LET conf_code == generate_confirmation_code(
                         self, transaction_codes.deposit, now, counter)
        checked == validate_real_number(value, Rat(1, 100))
    IN  IF ~checked.ok THEN Outcome(checked, self, conf_code.counter)
        ELSE Outcome(Return(conf_code.code),
                     [self EXCEPT !.balance = RAdd(self.balance, checked.value)],
                     conf_code.counter)

\* Account.deposit
deposit(self, value, now, counter) ==
    LET checked == validate_real_number(value, Rat(1, 100))
    IN  IF ~checked.ok THEN Outcome(checked, self, counter)
        ELSE LET conf_code == generate_confirmation_code(
                                  self, transaction_codes.deposit, now, counter)
             IN  Outcome(Return(conf_code.code),
                         [self EXCEPT !.balance = RAdd(self.balance, checked.value)],
                         conf_code.counter)

\* withdraw that rejects a withdrawal of the whole balance: <= 0 where the code has < 0
withdraw_strict(self, value, now, counter) ==
    LET checked == validate_real_number(value, Rat(1, 100))
    IN  IF ~checked.ok THEN Outcome(checked, self, counter)
        ELSE LET accepted == ~RLe(RSub(self.balance, checked.value), Rat(0, 1))
                 transaction_code == IF accepted THEN transaction_codes.withdraw
                                     ELSE transaction_codes.rejected
                 conf_code == generate_confirmation_code(
                                  self, transaction_code, now, counter)
             IN  Outcome(Return(conf_code.code),
                         IF accepted
                         THEN [self EXCEPT !.balance = RSub(self.balance, checked.value)]
                         ELSE self,
                         conf_code.counter)

\* withdraw that tags an overdraft as rejected and takes the money all the same
withdraw_unchecked(self, value, now, counter) ==
    LET checked == validate_real_number(value, Rat(1, 100))
    IN  IF ~checked.ok THEN Outcome(checked, self, counter)
        ELSE LET accepted == ~RLt(RSub(self.balance, checked.value), Rat(0, 1))
                 transaction_code == IF accepted THEN transaction_codes.withdraw
                                     ELSE transaction_codes.rejected
                 conf_code == generate_confirmation_code(
                                  self, transaction_code, now, counter)
             IN  Outcome(Return(conf_code.code),
                         [self EXCEPT !.balance = RSub(self.balance, checked.value)],
                         conf_code.counter)

\* Account.withdraw
withdraw(self, value, now, counter) ==
    LET checked == validate_real_number(value, Rat(1, 100))
    IN  IF ~checked.ok THEN Outcome(checked, self, counter)
        ELSE LET accepted == ~RLt(RSub(self.balance, checked.value), Rat(0, 1))
                 transaction_code == IF accepted THEN transaction_codes.withdraw
                                     ELSE transaction_codes.rejected
                 conf_code == generate_confirmation_code(
                                  self, transaction_code, now, counter)
             IN  Outcome(Return(conf_code.code),
                         IF accepted
                         THEN [self EXCEPT !.balance = RSub(self.balance, checked.value)]
                         ELSE self,
                         conf_code.counter)

\* pay_interest that takes the rate for a fraction: no division by 100
pay_interest_fraction(self, rate, now, counter) ==
    LET interest == RMul(self.balance, rate)
        conf_code == generate_confirmation_code(
                         self, transaction_codes.interest, now, counter)
    IN  Outcome(Return(conf_code.code),
                [self EXCEPT !.balance = RAdd(self.balance, interest)],
                conf_code.counter)

\* Account.pay_interest, with Account.get_interest_rate() = rate
pay_interest(self, rate, now, counter) ==
    LET interest == RDivInt(RMul(self.balance, rate), 100)
        conf_code == generate_confirmation_code(
                         self, transaction_codes.interest, now, counter)
    IN  Outcome(Return(conf_code.code),
                [self EXCEPT !.balance = RAdd(self.balance, interest)],
                conf_code.counter)

-----------------------------------------------------------------------------
(* class TransactionID of transactionNumbers.py *)

\* TransactionID(100), the start of Account.transaction_counter there
StartId == 100

\* self._start_id += 1, first half: the attribute is loaded
TransactionID_load(self_start_id) == self_start_id

\* self._start_id += 1, second half: the loaded value plus one is stored
TransactionID_store(loaded) == loaded + 1

\* return self._start_id: the attribute as it is when the call returns
TransactionID_return(self_start_id) == self_start_id

-----------------------------------------------------------------------------
(* The inputs the models draw from *)

\* itertools.count(100), the start of Account.transaction_counter in main.py
CounterStart == 100

NoAccount == [type |-> "NoAccount"]

NoCall == [op |-> "none"]

S_A100 == <<"A", "1", "0", "0">>

S_B200 == <<"B", "2", "0", "0">>

Slots == {"a1", "a2"}

AccountNumberOf(slot) == IF slot = "a1" THEN PyStr(S_A100) ELSE PyStr(S_B200)

\* values of datetime.utcnow()
Clock ==
    { [year |-> 2024, month |-> 10, day |-> 18, hour |-> 23, minute |-> 55,
       second |-> 12, microsecond |-> 0],
      [year |-> 2025, month |-> 1, day |-> 1, hour |-> 0, minute |-> 0,
       second |-> 9, microsecond |-> 500000] }

\* utcnow() as the account model's calls see it
Now == CHOOSE now \in Clock : now.microsecond = 0

TZ_1_30 == TimeZone(PyStr(<<"T", "Z">>), PyInt(1), PyInt(30)).value

Names == {PyStr(<<"F">>), PyStr(<<" ">>)}

\* the timezone argument of Account(...): left out, or no TimeZone
Zones == {None, PyStr(<<"T", "Z">>)}

InitialBalances == {Rat(-100, 1), Rat(0, 1), Rat(100, 1)}

Amounts ==
    {Rat(-20, 1), Rat(0, 1), Rat(1, 200), Rat(1, 100), Rat(100, 1)}

Rates == {Rat(-1, 1), Rat(10, 1), PyStr(<<"1">>)}

-----------------------------------------------------------------------------
(* The account model: accounts are created and used, one call at a time *)

AccountIdle ==
    /\ accounts = [s \in Slots |-> NoAccount]
    /\ interest_rate = Rat(1, 2)
    /\ issued = <<>>
    /\ last = NoCall

CodecIdle == conf = NoCall /\ parsed = NoCall

TimeZoneIdle == tz = NoCall

CallersIdle ==
    /\ start_id = StartId
    /\ pc = <<>>
    /\ reg = <<>>
    /\ returned = <<>>

\* what a call saw before it ran
Before(slot) ==
    [account |-> accounts[slot], counter |-> transaction_counter, rate |-> interest_rate]

\* the sequence id at the end of a confirmation code
IssuedId(code) == LET parts == Split(code, "-") IN DigitsVal(parts[Len(parts)])

\* a call on an account has run: the object, the counter and the log follow it
Apply(op, slot, value, out) ==
    /\ accounts' = [accounts EXCEPT ![slot] = out.self]
    /\ transaction_counter' = out.counter
    /\ issued' = IF out.result.ok
                 THEN Append(issued, [slot |-> slot, id |-> IssuedId(out.result.value)])
                 ELSE issued
    /\ last' = [op |-> op, slot |-> slot, value |-> value, result |-> out.result,
                before |-> Before(slot)]
    /\ UNCHANGED <<interest_rate, codecVars, tz, callerVars>>

CreateAccount(slot, first_name, last_name, timezone, initial_balance) ==
    /\ accounts[slot] = NoAccount
    /\ LET made == NewAccount(AccountNumberOf(slot), first_name, last_name,
                              timezone, initial_balance)
       IN  /\ accounts' = [accounts EXCEPT ![slot] = IF made.ok THEN made.value ELSE @]
           /\ last' = [op |-> "init", slot |-> slot, value |-> initial_balance,
                       result |-> IF made.ok THEN Return(<<>>) ELSE made,
                       before |-> Before(slot)]
    /\ UNCHANGED <<transaction_counter, interest_rate, issued, codecVars, tz, callerVars>>

Deposit(slot, value, now) ==
    /\ accounts[slot] # NoAccount
    /\ transaction_counter < CounterStart + MaxIds
    /\ Apply("deposit", slot, value,
             deposit(accounts[slot], value, now, transaction_counter))

Withdraw(slot, value, now) ==
    /\ accounts[slot] # NoAccount
    /\ transaction_counter < CounterStart + MaxIds
    /\ Apply("withdraw", slot, value,
             withdraw(accounts[slot], value, now, transaction_counter))

PayInterest(slot, now) ==
    /\ accounts[slot] # NoAccount
    /\ accounts[slot].balance.d <= MaxDenominator
    /\ transaction_counter < CounterStart + MaxIds
    /\ Apply("interest", slot, interest_rate,
             pay_interest(accounts[slot], interest_rate, now, transaction_counter))

SetInterestRate(value) ==
    /\ LET set == set_interest_rate(value)
       IN  /\ interest_rate' = IF set.ok THEN set.value ELSE interest_rate
           /\ last' = [op |-> "rate", slot |-> "a1", value |-> value,
                       result |-> IF set.ok THEN Return(<<>>) ELSE set,
                       before |-> Before("a1")]
    /\ UNCHANGED <<accounts, transaction_counter, issued, codecVars, tz, callerVars>>

Init ==
    /\ AccountIdle
    /\ transaction_counter = CounterStart
    /\ CodecIdle
    /\ TimeZoneIdle
    /\ CallersIdle

Next ==
    \/ \E slot \in Slots, f \in Names, l \in Names, z \in Zones, b \in InitialBalances :
           CreateAccount(slot, f, l, z, b)
    \/ \E slot \in Slots, v \in Amounts : Deposit(slot, v, Now)
    \/ \E slot \in Slots, v \in Amounts : Withdraw(slot, v, Now)
    \/ \E slot \in Slots : PayInterest(slot, Now)
    \/ \E v \in Rates : SetInterestRate(v)

Spec == Init /\ [][Next]_vars

-----------------------------------------------------------------------------
(* The codec model: codes are generated and codes are parsed *)

S_dummy == <<"d", "u", "m", "m", "y">>

\* transaction codes handed to generate_confirmation_code
Tokens == {transaction_codes.withdraw, S_dummy, <<"a", "-", "b">>}

\* account numbers: strings, an int, one with a dash in it
AccountNumbers == {PyStr(S_A100), PyInt(100), PyStr(<<"A", "-", "1">>)}

\* the preferred_time_zone argument of parse_confirmation_code
ParseZones == {None, TZ_1_30, PyStr(<<"T", "Z">>)}

\* codes handed to parse_confirmation_code besides the generated ones
TestCodes ==
    { <<"d", "u", "m", "m", "y", "-", "A", "1", "0", "0", "-", "2", "0", "2", "4", "1", "0", "1", "8", "2", "3", "5", "5", "1", "2", "-", "1", "0", "0", "-", "e", "x", "t", "r", "a">>,
      <<"d", "u", "m", "m", "y", "-", "A", "1", "0", "0", "-", "2", "0", "2", "4", "1", "0", "1", "8", "2", "3", "5", "5", "1", "2">>,
      <<>>,
      <<"-", "-", "-">>,
      <<"-", "A", "1", "0", "0", "-", "2", "0", "2", "4", "1", "0", "1", "8", "2", "3", "5", "5", "1", "2", "-", "1", "0", "0">>,
      <<"W", "-", "-", "2", "0", "2", "4", "1", "0", "1", "8", "2", "3", "5", "5", "1", "2", "-", "1", "0", "0">>,
      <<"W", "-", "A", "1", "0", "0", "-", "-", "1", "0", "0">>,
      <<"W", "-", "A", "1", "0", "0", "-", "2", "0", "2", "4", "1", "0", "1", "8", "2", "3", "5", "5", "1", "2", "-">>,
      <<"X", "-", "A", "1", "0", "0", "-", "2", "0", "2", "4", "1", "3", "1", "8", "2", "3", "5", "5", "1", "2", "-", "1", "0", "0">>,
      <<"W", "-", "A", "1", "0", "0", "-", "9", "9", "9", "9", "1", "2", "3", "1", "2", "3", "5", "9", "5", "9", "-", "1", "0", "0">>,
      <<"d", "u", "m", "m", "y", "-", "A", "1", "0", "0", "-", "2", "0", "2", "4", "1", "0", "1", "8", "2", "3", "5", "5", "1", "2", "-", "1", "0", "0">> }

Generate(transaction_code, account_number, now) ==
    /\ transaction_counter < CounterStart + MaxCodes
    /\ LET self == NewAccount(account_number, PyStr(<<"F">>), PyStr(<<"L">>),
                              None, Rat(0, 1)).value
           made == generate_confirmation_code(self, transaction_code, now,
                                              transaction_counter)
       IN  /\ conf' = [op |-> "generate", transaction_code |-> transaction_code,
                       account_number |-> account_number, now |-> now,
                       id |-> transaction_counter, code |-> made.code]
           /\ transaction_counter' = made.counter
    /\ UNCHANGED <<accountVars, parsed, tz, callerVars>>

Parse(confirmation_code, preferred_time_zone) ==
    /\ parsed' = [op |-> "parse", code |-> confirmation_code,
                  zone |-> preferred_time_zone,
                  result |-> parse_confirmation_code(confirmation_code,
                                                     preferred_time_zone)]
    /\ UNCHANGED <<accountVars, transaction_counter, conf, tz, callerVars>>

CodecNext ==
    \/ \E t \in Tokens, a \in AccountNumbers, now \in Clock : Generate(t, a, now)
    \/ \E c \in TestCodes, z \in ParseZones : Parse(c, z)
    \/ \E z \in ParseZones : conf # NoCall /\ Parse(conf.code, z)

SpecCodec == Init /\ [][CodecNext]_vars

-----------------------------------------------------------------------------
(* The time zone model: one TimeZone(...) call on arguments drawn at the start *)

TzNames == {PyStr(<<"A", "B", "C">>), PyStr(<<" ", "T", "Z", " ">>), PyStr(<<" ">>), None}

HourArgs == {PyInt(h) : h \in (-MaxHours)..MaxHours} \cup {PyHalf(3)}

MinuteArgs == {PyInt(m) : m \in (-MaxMinutes)..MaxMinutes} \cup {PyHalf(61)}

TimeZoneInit ==
    /\ AccountIdle
    /\ transaction_counter = CounterStart
    /\ CodecIdle
    /\ tz \in [op : {"args"}, name : TzNames, hours : HourArgs, minutes : MinuteArgs]
    /\ CallersIdle

CreateTimeZone ==
    /\ tz.op = "args"
    /\ tz' = [op |-> "TimeZone", name |-> tz.name, hours |-> tz.hours,
              minutes |-> tz.minutes,
              result |-> TimeZone(tz.name, tz.hours, tz.minutes)]
    /\ UNCHANGED <<accountVars, transaction_counter, codecVars, callerVars>>

TimeZoneNext == CreateTimeZone

SpecTimeZone == TimeZoneInit /\ [][TimeZoneNext]_vars

-----------------------------------------------------------------------------
(* The callers model: a1 and a2 of transactionNumbers.py call                *)
(* Account.transaction_counter.next() from concurrent threads, the steps of  *)
(* each call interleaved with the other's                                    *)

Callers == {"a1", "a2"}

CallersInit ==
    /\ AccountIdle
    /\ transaction_counter = CounterStart
    /\ CodecIdle
    /\ TimeZoneIdle
    /\ start_id = StartId
    /\ pc = [t \in Callers |-> "idle"]
    /\ reg = [t \in Callers |-> 0]
    /\ returned = [t \in Callers |-> <<>>]

\* make_transaction calls next(), which loads self._start_id
Load(t) ==
    /\ pc[t] = "idle"
    /\ Len(returned[t]) < MaxCalls
    /\ reg' = [reg EXCEPT ![t] = TransactionID_load(start_id)]
    /\ pc' = [pc EXCEPT ![t] = "store"]
    /\ UNCHANGED <<accountVars, transaction_counter, codecVars, tz, start_id, returned>>

\* ... adds one and stores the sum
Store(t) ==
    /\ pc[t] = "store"
    /\ start_id' = TransactionID_store(reg[t])
    /\ pc' = [pc EXCEPT ![t] = "return"]
    /\ UNCHANGED <<accountVars, transaction_counter, codecVars, tz, reg, returned>>

\* ... and returns self._start_id as it then is
ReturnId(t) ==
    /\ pc[t] = "return"
    /\ returned' = [returned EXCEPT ![t] = Append(@, TransactionID_return(start_id))]
    /\ pc' = [pc EXCEPT ![t] = "idle"]
    /\ UNCHANGED <<accountVars, transaction_counter, codecVars, tz, start_id, reg>>

CallersNext == \E t \in Callers : Load(t) \/ Store(t) \/ ReturnId(t)

SpecCallers == CallersInit /\ [][CallersNext]_vars

-----------------------------------------------------------------------------
(* Properties of the account model (Spec) *)

Zero == Rat(0, 1)

Cent == Rat(1, 100)

\* the operation-kind of a confirmation code, as the decoder reads it
CodeTag(code) == parse_confirmation_code(code, None).value.transaction_code

BalanceBefore == last.before.account.balance

BalanceAfter == accounts[last.slot].balance

IsAmountCall == last.op \in {"deposit", "withdraw"}

\* C1: no account ever holds a negative balance, and Account(...) with a
\* negative initial balance raises and makes no account.
BalanceNeverNegative ==
    /\ \A slot \in Slots :
           accounts[slot] # NoAccount => ~RLt(accounts[slot].balance, Zero)
    /\ (last.op = "init" /\ RLt(last.value, Zero)) =>
           (~last.result.ok /\ accounts[last.slot] = NoAccount)

\* C1's case: a withdrawal of more than the balance was tried on an account
OverdraftTried ==
    /\ last.op = "withdraw"
    /\ RLt(BalanceBefore, last.value)
    /\ last.result.ok

\* C2: the ids handed out, to whichever account, are strictly increasing in
\* the order they were handed out, so none is repeated.
IdsStrictlyIncreasing ==
    \A i, j \in 1..Len(issued) : i < j => issued[i].id < issued[j].id

\* C2's case: ids went to a1, then a2, then a1 again
IdsAcrossAccounts ==
    /\ Len(issued) = 3
    /\ issued[1].slot = "a1" /\ issued[2].slot = "a2" /\ issued[3].slot = "a1"

\* C4: withdraw of a valid amount returns a code; an amount up to the balance
\* (the whole balance included) is taken off it and the code is tagged W, a
\* larger amount leaves the balance alone and the code is tagged X.
WithdrawOutcome ==
    (last.op = "withdraw" /\ RLe(Cent, last.value)) =>
        /\ last.result.ok
        /\ IF RLe(last.value, BalanceBefore)
           THEN /\ RAdd(BalanceAfter, last.value) = BalanceBefore
                /\ CodeTag(last.result.value) = <<"W">>
           ELSE /\ BalanceAfter = BalanceBefore
                /\ CodeTag(last.result.value) = <<"X">>

\* C4's case: the whole of a positive balance was withdrawn
WholeBalanceWithdrawn ==
    /\ last.op = "withdraw"
    /\ last.value = BalanceBefore
    /\ last.result.ok
    /\ BalanceAfter = Zero

\* what C8 asks of a refused call: an exception, and the account and the
\* shared counter as they were
RefusedUntouched ==
    /\ ~last.result.ok
    /\ accounts[last.slot] = last.before.account
    /\ transaction_counter = last.before.counter

\* C8 as stated: an amount that is zero, negative or below 0.01 is refused
\* with nothing changed, and every amount above zero is accepted.
EveryPositiveAmountAccepted ==
    IsAmountCall =>
        /\ (~RLt(Zero, last.value) \/ RLt(last.value, Cent)) => RefusedUntouched
        /\ RLt(Zero, last.value) => last.result.ok

\* C8 as amended: an amount below 0.01 (zero and negative amounts included) is
\* refused with nothing changed, and every amount of at least 0.01 is accepted.
AmountAcceptedFromOneCent ==
    IsAmountCall =>
        IF RLt(last.value, Cent) THEN RefusedUntouched ELSE last.result.ok

\* C8's case: a positive amount below 0.01 was refused
SubCentAmountRefused ==
    /\ IsAmountCall
    /\ RLt(Zero, last.value) /\ RLt(last.value, Cent)
    /\ ~last.result.ok

\* C9: pay_interest adds balance * rate / 100 to the balance and returns a code
\* tagged I; the rate is the one class-level value, 0.5 until a call sets it,
\* changed by a call with a value >= 0 and by nothing else.
InterestByRate ==
    /\ last.op = "none" => interest_rate = Rat(1, 2)
    /\ last.op = "interest" =>
           /\ last.result.ok
           /\ CodeTag(last.result.value) = <<"I">>
           /\ RMul(RSub(BalanceAfter, BalanceBefore), Rat(100, 1))
                  = RMul(BalanceBefore, last.before.rate)
    /\ last.op = "rate" =>
           IF IsReal(last.value) /\ ~RLt(last.value, Zero)
           THEN last.result.ok /\ interest_rate = last.value
           ELSE ~last.result.ok /\ interest_rate = last.before.rate
    /\ last.op \in {"init", "deposit", "withdraw", "interest"} =>
           interest_rate = last.before.rate

\* C9's case: interest was paid on a2's positive balance at a rate set by a call
InterestAtSetRate ==
    /\ last.op = "interest"
    /\ last.slot = "a2"
    /\ last.before.rate = Rat(10, 1)
    /\ RLt(Zero, BalanceBefore)
    /\ accounts["a1"] # NoAccount

-----------------------------------------------------------------------------
(* Properties of the codec model (SpecCodec) *)

NoDash(s) == \A i \in 1..Len(s) : s[i] # "-"

\* the parts of the parsed code
ParsedParts == Split(parsed.code, "-")

\* C5: a code that does not split on '-' into exactly 4 parts, all of them
\* non-empty, is refused as malformed ('Invalid confirmation code').
MalformedUnlessFourNonEmptyParts ==
    (parsed.op = "parse"
     /\ ~(Len(ParsedParts) = 4 /\ \A i \in 1..4 : ParsedParts[i] # <<>>)) =>
        parsed.result = Raise("Invalid confirmation code")

\* C6: parsing the code generated from a transaction code and an account
\* number without dashes gives back the transaction code, the account number
\* and the sequence id (in decimal), and the UTC time to the second.
RoundTrip ==
    (/\ parsed.op = "parse"
     /\ conf.op = "generate"
     /\ parsed.code = conf.code
     /\ NoDash(conf.transaction_code)
     /\ NoDash(ToStr(conf.account_number))
     /\ parsed.zone.type \in {"NoneType", "TimeZone"}) =>
        /\ parsed.result.ok
        /\ parsed.result.value.transaction_code = conf.transaction_code
        /\ parsed.result.value.account_number = ToStr(conf.account_number)
        /\ \A i \in 1..Len(parsed.result.value.transaction_id) :
               IsDigit(parsed.result.value.transaction_id[i])
        /\ DigitsVal(parsed.result.value.transaction_id) = conf.id
        /\ parsed.result.value.time_utc
               = isoformat([conf.now EXCEPT !.microsecond = 0])
        /\ parsed.zone = None =>
               parsed.result.value.time = [conf.now EXCEPT !.microsecond = 0]

\* C6's case: a code generated at a time with microseconds, for an int
\* account number, was parsed
GeneratedCodeParsed ==
    /\ parsed.op = "parse"
    /\ conf.op = "generate"
    /\ parsed.code = conf.code
    /\ conf.now.microsecond # 0
    /\ conf.account_number = PyInt(100)
    /\ conf.transaction_code = S_dummy
    /\ conf.id > CounterStart
    /\ parsed.zone = None
    /\ parsed.result.ok

-----------------------------------------------------------------------------
(* Properties of the time zone model (SpecTimeZone) *)

\* the call was made with a non-empty name and int hours and minutes
TimeZoneCalled ==
    /\ tz.op = "TimeZone"
    /\ tz.name.type = "str" /\ Strip(tz.name.s) # <<>>
    /\ tz.hours.type = "int"
    /\ tz.minutes.type = "int"

MinutesFollowHours ==
    (TimeZoneCalled /\ tz.result.ok) =>
        TdMinutes(tz.result.value.offset) =
            IF tz.hours.v < 0 THEN -(Abs(tz.hours.v) * 60 + Abs(tz.minutes.v))
            ELSE IF tz.hours.v > 0 THEN Abs(tz.hours.v) * 60 + Abs(tz.minutes.v)
            ELSE tz.minutes.v

-----------------------------------------------------------------------------
(* Properties of the callers model (SpecCallers) *)

\* the calls that have returned: who, and which of its calls
Returns == {c \in Callers \X (1..MaxCalls) : c[2] <= Len(returned[c[1]])}

\* C3: no two calls of next(), by the same or by different callers, return
\* the same value.
NoTwoCallersSameValue ==
    \A c, d \in Returns : c # d => returned[c[1]][c[2]] # returned[d[1]][d[2]]

=============================================================================
